---- MODULE Spec2Model ----
(***************************************************************************)
(* A model of orphics/cosmology.py: the TheorySpectra interpolation store, *)
(* the LensForecast covariance / ratio forecasts, the LimberCosmology      *)
(* kernel registry and Limber integrator, and the files that               *)
(* loadTheorySpectraFromPycambResults keeps under output/.                 *)
(*                                                                         *)
(* Numbers.  A float is modelled as an extended rational <<n, d>>:         *)
(*   d > 0, gcd(n,d) = 1   the finite value n/d                            *)
(*   <<1,0>>, <<-1,0>>     +inf and -inf                                   *)
(*   <<0,0>>               NaN                                             *)
(* with the IEEE-754 rules numpy follows for the special values (x/0 is    *)
(* +-inf, 0/0 and inf/inf and inf-inf and 0*inf are NaN).  Rounding and    *)
(* the sign of zero are not modelled.                                      *)
(*                                                                         *)
(* Strings.  A Python str is a sequence of one-character strings, so that  *)
(* concatenation, reversal, slicing and upper()/lower() are computed.      *)
(***************************************************************************)
EXTENDS Integers, Sequences, FiniteSets, TLC

VARIABLES
    uClTab,      \* TheorySpectra._uCl : code -> interpolator
    lClTab,      \* TheorySpectra._lCl : code -> interpolator
    gClTab,      \* TheorySpectra._gCl : key  -> interpolator
    Nls,         \* LensForecast.Nls   : key  -> noise curve
    have,        \* LensForecast._haveKK ... _haveKS
    kernels,     \* LimberCosmology.kernels : tag -> kernel record
    kernelOrder, \* insertion order of the keys of kernels (a Python dict is ordered)
    Clmatrix,    \* LimberCosmology.Clmatrix : key -> array, or NoAttr before generateCls
    ellrange,    \* LimberCosmology.ellrange
    output,      \* the files of the directory output/ : name -> content
    lastCall,    \* the last call of TheorySpectra, LimberCosmology or the loader and how it ended
    nOps         \* number of calls made so far

vars == <<uClTab, lClTab, gClTab, Nls, have, kernels, kernelOrder, Clmatrix,
          ellrange, output, lastCall, nOps>>

----------------------------------------------------------------------------
(* Extended rational arithmetic *)

(* The operations are TLA+ functions, so an operand is evaluated once        *)
(* before the operation is applied to it.                                    *)

Abs(x) == IF x < 0 THEN -x ELSE x

Sign(x) == IF x < 0 THEN -1 ELSE IF x = 0 THEN 0 ELSE 1

Rat == Int \X Int

GCD[a \in Nat, b \in Nat] == IF b = 0 THEN a ELSE GCD[b, a % b]

Norm[n \in Int, d \in Int] ==
    IF d = 0 THEN <<Sign(n), 0>>
    ELSE LET g == GCD[Abs(n), Abs(d)]
             s == IF d < 0 THEN -1 ELSE 1
         IN  <<(s * n) \div g, (s * d) \div g>>

R(n, d) == Norm[n, d]

I(n) == <<n, 1>>

NaN == <<0, 0>>

Inf == <<1, 0>>

Zero == <<0, 1>>

One == <<1, 1>>

IsNaN[x \in Rat] == x = NaN

IsFinite[x \in Rat] == x[2] # 0

IsInf[x \in Rat] == x[2] = 0 /\ x[1] # 0

Neg[x \in Rat] == <<-x[1], x[2]>>

Mul[x \in Rat, y \in Rat] ==
    IF x[2] = 0 \/ y[2] = 0 THEN Norm[x[1] * y[1], 0]
    ELSE LET g1 == GCD[Abs(x[1]), y[2]]
             g2 == GCD[Abs(y[1]), x[2]]
         IN  <<(x[1] \div g1) * (y[1] \div g2), (x[2] \div g2) * (y[2] \div g1)>>

Recip[x \in Rat] == IF x[1] < 0 THEN <<-x[2], -x[1]>> ELSE <<x[2], x[1]>>

Div[x \in Rat, y \in Rat] == Mul[x, Recip[y]]

Add[x \in Rat, y \in Rat] ==
    IF IsNaN[x] \/ IsNaN[y] THEN NaN
    ELSE IF x[2] = 0 /\ y[2] = 0 THEN (IF x[1] = y[1] THEN x ELSE NaN)
    ELSE IF x[2] = 0 THEN x
    ELSE IF y[2] = 0 THEN y
    ELSE LET g == GCD[x[2], y[2]]
         IN  Norm[x[1] * (y[2] \div g) + y[1] * (x[2] \div g), (x[2] \div g) * y[2]]

Sub[x \in Rat, y \in Rat] == Add[x, Neg[y]]

Sq[x \in Rat] == Mul[x, x]

Pow4[x \in Rat] == Sq[Sq[x]]

\* x < y on floats; every comparison with NaN is false
Lt[x \in Rat, y \in Rat] ==
    /\ ~IsNaN[x] /\ ~IsNaN[y]
    /\ x # y
    /\ IF x[2] = 0 THEN x[1] < 0
       ELSE IF y[2] = 0 THEN y[1] > 0
       ELSE x[1] * y[2] < y[1] * x[2]

Le[x \in Rat, y \in Rat] == ~IsNaN[x] /\ ~IsNaN[y] /\ (x = y \/ Lt[x, y])

\* the cast of a finite float to an integer dtype: truncation towards zero
Trunc[x \in Rat] == I(Sign(x[1]) * (Abs(x[1]) \div x[2]))

\* numpy.nan_to_num: NaN becomes 0, +-inf the largest finite float.  The model's
\* floats are far below FloatMax; a product with FloatMax that exceeds it is inf.
FloatMax == <<1000000, 1>>

Overflow[x \in Rat] ==
    IF /\ IsFinite[x]
       /\ \/ Abs(x[1]) \div x[2] > FloatMax[1]
          \/ Abs(x[1]) \div x[2] = FloatMax[1] /\ Abs(x[1]) % x[2] # 0
    THEN <<Sign(x[1]), 0>>
    ELSE x

nan_to_num[x \in Rat] ==
    IF IsNaN[x] THEN Zero
    ELSE IF IsInf[x] THEN (IF x[1] > 0 THEN FloatMax ELSE Neg[FloatMax])
    ELSE x

SumSeq[s \in Seq(Rat)] == IF s = <<>> THEN Zero ELSE Add[s[1], SumSeq[Tail(s)]]

\* numpy.dot of two vectors of the same length
Dot(a, b) == SumSeq[[i \in 1..Len(a) |-> Mul[a[i], b[i]]]]

----------------------------------------------------------------------------
(* Strings *)

Reverse(s) == [i \in 1..Len(s) |-> s[Len(s) + 1 - i]]

UpperChar(c) ==
    CASE c = "t" -> "T"
      [] c = "e" -> "E"
      [] c = "b" -> "B"
      [] c = "u" -> "U"
      [] c = "l" -> "L"
      [] c = "k" -> "K"
      [] c = "g" -> "G"
      [] c = "s" -> "S"
      [] OTHER   -> c

LowerChar(c) ==
    CASE c = "T" -> "t"
      [] c = "E" -> "e"
      [] c = "B" -> "b"
      [] c = "U" -> "u"
      [] c = "L" -> "l"
      [] OTHER   -> c

Upper(s) == [i \in 1..Len(s) |-> UpperChar(s[i])]

----------------------------------------------------------------------------
(* TheorySpectra *)

\* An interpolator built by loadCls / loadGenericCls: the closure keeps the
\* samples (pairs <<ell, Cl>>, ell ascending), lpad and the fill policy.
Entry(data, lpad, fill_zero) == [data |-> data, lpad |-> lpad, fill_zero |-> fill_zero]

\* scipy interp1d(xs, ys, bounds_error=False, fill_value=fill)(x), kind linear;
\* pts are the pairs <<x, y>>, x ascending
interp1dF(pts, fill, x) ==
    LET n == Len(pts) IN
    IF Lt[x, pts[1][1]] \/ Lt[pts[n][1], x] THEN fill
    ELSE LET i  == CHOOSE j \in 1..(n - 1) : Le[pts[j][1], x] /\ Le[x, pts[j + 1][1]]
             lo == pts[i]
             hi == pts[i + 1]
             slope == Div[Sub[hi[2], lo[2]], Sub[hi[1], lo[1]]]
         IN  Add[Mul[slope, Sub[x, lo[1]]], lo[2]]

\* the same over integer abscissae (multipoles)
interp1d(pts, fill, x) ==
    interp1dF([j \in 1..Len(pts) |-> <<I(pts[j][1]), pts[j][2]>>], fill, x)

\* ell[ell<lpad], Cl[ell<lpad]
BelowPad(e) == SelectSeq(e.data, LAMBDA p : p[1] < e.lpad)

\* fillval = Cl[ell<lpad][-1]
FillVal(e) == BelowPad(e)[Len(BelowPad(e))][2]

\* The value of an interpolator at one multipole.  q.v is the multipole and
\* q.int says whether it arrives with an integer dtype.  With fill_zero the
\* interpolator is interp1d itself, which returns floats.  Without, it is
\* numpy.piecewise(x, [x<=lpad, x>lpad], [interp1d(...), fillval*(lpad/y)**4]),
\* whose output array has the dtype of x: the values are cast to x's dtype.
EvalEntry(e, q) ==
    IF e.fill_zero THEN interp1d(BelowPad(e), Zero, q.v)
    ELSE LET raw == IF Le[q.v, I(e.lpad)]
                    THEN interp1d(BelowPad(e), Zero, q.v)
                    ELSE Mul[FillVal(e), Pow4[Div[I(e.lpad), q.v]]]
         IN  IF q.int THEN Trunc[raw] ELSE raw

Ok(v) == [err |-> "none", val |-> v]

Raise(e) == [err |-> e, val |-> NaN]

\* validateMapType: two characters, each of T, E, B
validMapType(mapXYType) ==
    Len(mapXYType) = 2 /\ \A i \in 1..Len(mapXYType) : mapXYType[i] \in {"T", "E", "B"}

zspecs == {<<"E", "B">>, <<"T", "B">>}

\* _Cl with the except branch re-raising for every code: no zero for EB / TB
ClNoZero(XYType, q, lensed) ==
    LET up  == Upper(XYType)
        key == IF up = <<"E", "T">> THEN <<"T", "E">> ELSE up
        tab == IF lensed THEN lClTab ELSE uClTab
    IN  IF ~validMapType(up) THEN Raise("AssertionError")
        ELSE IF key \in DOMAIN tab THEN Ok(EvalEntry(tab[key], q))
        ELSE Raise("KeyError")

\* TheorySpectra._Cl(XYType, ell, lensed)
Cl(XYType, q, lensed) ==
    LET up  == Upper(XYType)
        key == IF up = <<"E", "T">> THEN <<"T", "E">> ELSE up
        tab == IF lensed THEN lClTab ELSE uClTab
    IN  IF ~validMapType(up) THEN Raise("AssertionError")
        ELSE IF key \in DOMAIN tab THEN Ok(EvalEntry(tab[key], q))
        ELSE IF XYType \in zspecs \/ Reverse(XYType) \in zspecs THEN Ok(Zero)
        ELSE Raise("KeyError")

uCl(XYType, q) == Cl(XYType, q, FALSE)

lCl(XYType, q) == Cl(XYType, q, TRUE)

\* gCl without the except branch that tries keyName[::-1]
gClNoReverse(keyName, q) ==
    IF Len(keyName) = 3
    THEN LET ultype == LowerChar(keyName[1]) IN
         IF ultype = "u" THEN uCl(Tail(keyName), q)
         ELSE IF ultype = "l" THEN lCl(Tail(keyName), q)
         ELSE Raise("ValueError")
    ELSE IF keyName \in DOMAIN gClTab THEN Ok(EvalEntry(gClTab[keyName], q))
    ELSE Raise("KeyError")

\* gCl with the generic table consulted for a three-character key that starts
\* with neither u nor l, instead of raise ValueError
gClAnyThree(keyName, q) ==
    IF Len(keyName) = 3 /\ LowerChar(keyName[1]) \in {"u", "l"}
    THEN IF LowerChar(keyName[1]) = "u" THEN uCl(Tail(keyName), q)
         ELSE lCl(Tail(keyName), q)
    ELSE IF keyName \in DOMAIN gClTab THEN Ok(EvalEntry(gClTab[keyName], q))
    ELSE IF Reverse(keyName) \in DOMAIN gClTab THEN Ok(EvalEntry(gClTab[Reverse(keyName)], q))
    ELSE Raise("KeyError")

\* TheorySpectra.gCl(keyName, ell)
gCl(keyName, q) ==
    IF Len(keyName) = 3
    THEN LET ultype == LowerChar(keyName[1]) IN
         IF ultype = "u" THEN uCl(Tail(keyName), q)
         ELSE IF ultype = "l" THEN lCl(Tail(keyName), q)
         ELSE Raise("ValueError")
    ELSE IF keyName \in DOMAIN gClTab THEN Ok(EvalEntry(gClTab[keyName], q))
    ELSE IF Reverse(keyName) \in DOMAIN gClTab THEN Ok(EvalEntry(gClTab[Reverse(keyName)], q))
    ELSE Raise("KeyError")

Put(tab, key, e) == [k \in DOMAIN tab \cup {key} |-> IF k = key THEN e ELSE tab[k]]

\* loadCls / loadGenericCls default: lpad=9000
DefaultLpad == 9000

\* Bound on the number of calls explored from the freshly constructed objects
MaxOps == 2

\* Sample spectra handed to the load calls: pairs <<ell, Cl>>
DataA == << <<2, I(1)>>, <<3, I(3)>>, <<4, I(2)>>, <<6, I(5)>> >>

DataB == << <<2, I(32)>>, <<4, I(32)>> >>

\* (samples, lpad, fill_zero) of the load calls explored; each leaves at least
\* two samples below lpad, as interp1d needs
LoadArgs ==
    { Entry(DataA, DefaultLpad, TRUE), Entry(DataA, 5, FALSE),
      Entry(DataB, 5, FALSE), Entry(DataB, 5, TRUE) }

\* XYType arguments of loadCls explored ("te" is lower case, "TX" is invalid)
LoadTypes ==
    { <<"T", "E">>, <<"E", "T">>, <<"E", "B">>, <<"B", "T">>, <<"t", "e">>, <<"T", "X">> }

\* keyName arguments of TheorySpectra.loadGenericCls explored
GenericKeys ==
    { <<"T", "E">>, <<"E", "T">>, <<"E", "B">>, <<"k", "g">>, <<"u", "T", "E">>,
      <<"k", "g", "s">> }

\* Multipoles queried, as integers and as floats
QueryElls == {0, 2, 3, 5, 6, 8, 10, 20}

Queries ==
    { [v |-> I(n), int |-> b] : n \in QueryElls, b \in BOOLEAN }
        \cup { [v |-> R(5, 2), int |-> FALSE] }

Call(op, key, err) == [op |-> op, key |-> key, err |-> err]

EmptyTab == [k \in {} |-> 0]

\* TheorySpectra.__init__
InitTheory ==
    /\ uClTab = EmptyTab
    /\ lClTab = EmptyTab
    /\ gClTab = EmptyTab

\* TheorySpectra.loadCls(ell, Cl, XYType, lensed, interporder, lpad, fill_zero)
loadCls ==
    \E XYType \in LoadTypes, lensed \in BOOLEAN, e \in LoadArgs :
        /\ nOps < MaxOps
        /\ nOps' = nOps + 1
        /\ IF ~validMapType(Upper(XYType))
           THEN /\ lastCall' = Call("loadCls", XYType, "AssertionError")
                /\ UNCHANGED <<uClTab, lClTab>>
           ELSE /\ lastCall' = Call("loadCls", XYType, "none")
                /\ IF lensed
                   THEN lClTab' = Put(lClTab, XYType, e) /\ UNCHANGED uClTab
                   ELSE uClTab' = Put(uClTab, XYType, e) /\ UNCHANGED lClTab
        /\ UNCHANGED <<gClTab, Nls, have, kernels, kernelOrder, Clmatrix, ellrange, output>>

\* TheorySpectra.loadGenericCls(ells, Cls, keyName, lpad, fill_zero)
loadGenericCls ==
    \E keyName \in GenericKeys, e \in LoadArgs :
        /\ nOps < MaxOps
        /\ nOps' = nOps + 1
        /\ gClTab' = Put(gClTab, keyName, e)
        /\ lastCall' = Call("loadGenericCls", keyName, "none")
        /\ UNCHANGED <<uClTab, lClTab, Nls, have, kernels, kernelOrder, Clmatrix, ellrange, output>>

----------------------------------------------------------------------------
(* LensForecast *)

kk == <<"k", "k">>

gg == <<"g", "g">>

ss == <<"s", "s">>

kg == <<"k", "g">>

ks == <<"k", "s">>

sg == <<"s", "g">>

\* the galaxy-density conversion 1.18e7 of loadGG and loadSS
GalPerSr == <<11800000, 1>>

\* A noise curve of LensForecast.Nls.  "interp" is interp1d(ellsNls, Nls,
\* bounds_error=False, fill_value=np.inf); "shot" is loadGG's lambda over
\* ngalForeground; "shape" is loadSS's lambda over shapeNoise and ngalBackground
\* (the two attributes are written by loadGG and loadSS only, together with the
\* lambda, so the record keeps their values).
NoiseAt(n, x) ==
    CASE n.kind = "interp" -> interp1d(n.data, Inf, x)
      [] n.kind = "shot"   -> Div[One, Mul[n.ngal, GalPerSr]]
      [] n.kind = "shape"  ->
            Add[Mul[x, Zero],
                Div[Mul[n.shapeNoise, n.shapeNoise], Mul[Mul[I(2), n.ngal], GalPerSr]]]

IntQ(l) == [v |-> I(l), int |-> TRUE]

FloatQ(x) == [v |-> x, int |-> FALSE]

\* _bin_cls with ells = np.arange(ell_left, ell_right): the right edge left out
bin_cls_open(spec, ell_left, ell_right, noise) ==
    LET n     == ell_right - ell_left
        ells  == [i \in 1..n |-> ell_left + i - 1]
        useN  == noise /\ spec[1] = spec[2]
        cls   == [i \in 1..n |-> gCl(spec, IntQ(ells[i]))]
    IN  IF gCl(spec, IntQ(ell_left)).err # "none" THEN Raise(gCl(spec, IntQ(ell_left)).err)
        ELSE IF useN /\ spec \notin DOMAIN Nls THEN Raise("KeyError")
        ELSE LET tot == [i \in 1..n |->
                            Add[cls[i].val,
                                IF useN THEN NoiseAt(Nls[spec], I(ells[i])) ELSE Zero]]
                 num == SumSeq[[i \in 1..n |-> Mul[I(ells[i]), tot[i]]]]
                 den == SumSeq[[i \in 1..n |-> I(ells[i])]]
             IN  Ok(Div[num, den])

\* LensForecast._bin_cls(spec, ell_left, ell_right, noise)
bin_cls(spec, ell_left, ell_right, noise) ==
    LET n     == ell_right - ell_left + 1
        ells  == [i \in 1..n |-> ell_left + i - 1]
        a     == spec[1]
        b     == spec[2]
        useN  == noise /\ a = b
        cls   == [i \in 1..n |-> gCl(spec, IntQ(ells[i]))]
    IN  IF gCl(spec, IntQ(ell_left)).err # "none" THEN Raise(gCl(spec, IntQ(ell_left)).err)
        ELSE IF useN /\ spec \notin DOMAIN Nls THEN Raise("KeyError")
        ELSE LET tot == [i \in 1..n |->
                            Add[cls[i].val,
                                IF useN THEN NoiseAt(Nls[spec], I(ells[i])) ELSE Zero]]
                 num == SumSeq[[i \in 1..n |-> Mul[I(ells[i]), tot[i]]]]
                 den == SumSeq[[i \in 1..n |-> I(ells[i])]]
             IN  Ok(Div[num, den])

\* ClTot of KnoxCov
ClTot(spec, ell1, ell2) == bin_cls(spec, ell1, ell2, TRUE)

\* One bin of the loop of KnoxCov: [err, var, sig1, sig2]
KnoxBin(specTypeXY, specTypeWZ, ell_left, ell_right, fsky) ==
    LET X  == specTypeXY[1]
        Y  == specTypeXY[2]
        W  == specTypeWZ[1]
        Z  == specTypeWZ[2]
        xw == ClTot(<<X, W>>, ell_left, ell_right)
        yz == ClTot(<<Y, Z>>, ell_left, ell_right)
        xz == ClTot(<<X, Z>>, ell_left, ell_right)
        yw == ClTot(<<Y, W>>, ell_left, ell_right)
        s1 == bin_cls(specTypeXY, ell_left, ell_right, FALSE)
        s2 == bin_cls(specTypeWZ, ell_left, ell_right, FALSE)
        bad == {r \in {xw, yz, xz, yw, s1, s2} : r.err # "none"}
    IN  IF bad # {} THEN [err |-> (CHOOSE r \in bad : TRUE).err, var |-> NaN,
                          sig1 |-> NaN, sig2 |-> NaN]
        ELSE LET ClSum    == Add[Mul[xw.val, yz.val], Mul[xz.val, yw.val]]
                 ellMid   == Div[I(ell_right + ell_left), I(2)]
                 ellWidth == I(ell_right - ell_left)
                 var      == Div[Div[Div[ClSum, Add[Mul[I(2), ellMid], One]], ellWidth], fsky]
             IN  [err  |-> "none",
                  var  |-> var,
                  sig1 |-> Overflow[Mul[Sq[s1.val], nan_to_num[Div[One, var]]]],
                  sig2 |-> Overflow[Mul[Sq[s2.val], nan_to_num[Div[One, var]]]]]

\* The loop of KnoxCov from bin i on; acc holds covs, sigs1 and sigs2 appended
\* so far.  An exception raised in a bin ends the call.
RECURSIVE KnoxLoop(_, _, _, _, _, _)
KnoxLoop(specTypeXY, specTypeWZ, ellBinEdges, fsky, i, acc) ==
    IF i >= Len(ellBinEdges) THEN acc
    ELSE LET b == KnoxBin(specTypeXY, specTypeWZ, ellBinEdges[i], ellBinEdges[i + 1], fsky)
         IN  IF b.err # "none"
             THEN [err |-> b.err, covs |-> <<>>, sigs1 |-> <<>>, sigs2 |-> <<>>]
             ELSE KnoxLoop(specTypeXY, specTypeWZ, ellBinEdges, fsky, i + 1,
                           [err   |-> "none",
                            covs  |-> Append(acc.covs, b.var),
                            sigs1 |-> Append(acc.sigs1, b.sig1),
                            sigs2 |-> Append(acc.sigs2, b.sig2)])

\* LensForecast.KnoxCov(specTypeXY, specTypeWZ, ellBinEdges, fsky):
\* [err, covs, sigs1, sigs2], one element per bin
KnoxCov(specTypeXY, specTypeWZ, ellBinEdges, fsky) ==
    KnoxLoop(specTypeXY, specTypeWZ, ellBinEdges, fsky, 1,
             [err |-> "none", covs |-> <<>>, sigs1 |-> <<>>, sigs2 |-> <<>>])

\* LensForecast.sigmaClSquared
sigmaClSquared(specType, ellBinEdges, fsky) == KnoxCov(specType, specType, ellBinEdges, fsky)

\* snBin with the r0**2 term of sigmaZsq left out
snBinNoMixed(ellMid, ellWidth, fsky) ==
    LET q    == FloatQ(ellMid)
        Clkk == gCl(kk, q).val
        Nlkk == NoiseAt(Nls[kk], ellMid)
        Nlgg == NoiseAt(Nls[gg], ellMid)
        Clkg == gCl(kg, q).val
        Clgg == gCl(gg, q).val
        Clks == gCl(ks, q).val
        Clsg == gCl(sg, q).val
        r0   == Div[Clkg, Clsg]
        pref == Div[One, Mul[Mul[fsky, Add[Mul[I(2), ellMid], One]], ellWidth]]
        t1   == Mul[Add[Clkk, Nlkk], Add[Clgg, Nlgg]]
        t2   == Sq[Clkg]
        t4   == Mul[Mul[I(2), r0], Add[Mul[Clks, Add[Clgg, Nlgg]], Mul[Clkg, Clsg]]]
        sigmaZsq == Mul[Sub[Add[t1, t2], t4], pref]
    IN  [r0       |-> r0,
         sigmaZsq |-> sigmaZsq,
         signum   |-> Div[Mul[Clkg, Clsg], sigmaZsq],
         sigden   |-> Div[Sq[Clsg], sigmaZsq],
         chisq    |-> Div[Sq[Clsg], sigmaZsq]]

\* One pass of the loop of snRatio at (ellMid, ellWidth); every spectrum and
\* noise curve it reads is present
snBin(ellMid, ellWidth, fsky) ==
    LET q    == FloatQ(ellMid)
        Clkk == gCl(kk, q).val
        Nlkk == NoiseAt(Nls[kk], ellMid)
        Nlgg == NoiseAt(Nls[gg], ellMid)
        Nlss == NoiseAt(Nls[ss], ellMid)
        Clkg == gCl(kg, q).val
        Clgg == gCl(gg, q).val
        Clks == gCl(ks, q).val
        Clss == gCl(ss, q).val
        Clsg == gCl(sg, q).val
        r0   == Div[Clkg, Clsg]
        pref == Div[One, Mul[Mul[fsky, Add[Mul[I(2), ellMid], One]], ellWidth]]
        t1   == Mul[Add[Clkk, Nlkk], Add[Clgg, Nlgg]]
        t2   == Sq[Clkg]
        t3   == Mul[Sq[r0], Add[Mul[Add[Clss, Nlss], Add[Clgg, Nlgg]], Sq[Clsg]]]
        t4   == Mul[Mul[I(2), r0], Add[Mul[Clks, Add[Clgg, Nlgg]], Mul[Clkg, Clsg]]]
        sigmaZsq == Mul[Sub[Add[Add[t1, t2], t3], t4], pref]
    IN  [r0       |-> r0,
         sigmaZsq |-> sigmaZsq,
         signum   |-> Div[Mul[Clkg, Clsg], sigmaZsq],
         sigden   |-> Div[Sq[Clsg], sigmaZsq],
         chisq    |-> Div[Sq[Clsg], sigmaZsq]]

\* what snRatio reads: it raises KeyError when one is missing
snReady ==
    /\ \A key \in {kk, kg, gg, ks, ss, sg} : gCl(key, FloatQ(One)).err = "none"
    /\ {kk, gg, ss} \subseteq DOMAIN Nls

\* The loop of snRatio from bin i on; acc holds the sums accumulated so far
\* (signum, sigden, sumchisq) and the passes made (bins)
RECURSIVE snLoop(_, _, _, _)
snLoop(ellBinEdges, fsky, i, acc) ==
    IF i >= Len(ellBinEdges) THEN acc
    ELSE LET b == snBin(Div[I(ellBinEdges[i + 1] + ellBinEdges[i]), I(2)],
                        I(ellBinEdges[i + 1] - ellBinEdges[i]), fsky)
         IN  snLoop(ellBinEdges, fsky, i + 1,
                    [bins     |-> Append(acc.bins, b),
                     signum   |-> Add[acc.signum, b.signum],
                     sigden   |-> Add[acc.sigden, b.sigden],
                     sumchisq |-> Add[acc.sumchisq, b.chisq]])

\* what snRatio computes from the sums: maxlike is the third returned value;
\* sigmaR = 1/sqrt(sumchisq) is kept as its square sigmaRsq
snResult(acc) ==
    [err        |-> "none",
     bins       |-> acc.bins,
     signum     |-> acc.signum,
     sigden     |-> acc.sigden,
     sumchisq   |-> acc.sumchisq,
     maxlike    |-> Div[acc.signum, acc.sigden],
     sigmaRsq   |-> IF Lt[acc.sumchisq, Zero] THEN NaN ELSE Div[One, acc.sumchisq]]

\* the first two returned values, percentR = sigmaR*100./maxlike and
\* snR = maxlike/sigmaR, as their squares
percentRsq(r) == Div[Mul[r.sigmaRsq, I(10000)], Sq[r.maxlike]]

snRsq(r) == Div[Sq[r.maxlike], r.sigmaRsq]

\* LensForecast.snRatio(ellBinEdges, fsky)
snRatio(ellBinEdges, fsky) ==
    IF ~snReady THEN [err |-> "KeyError"]
    ELSE snResult(snLoop(ellBinEdges, fsky, 1,
                         [bins |-> <<>>, signum |-> Zero, sigden |-> Zero, sumchisq |-> Zero]))

\* Spectra and noise samples handed to the LensForecast loads
FlatData == << <<2, I(2)>>, <<8, I(2)>> >>

TiltData == << <<2, I(1)>>, <<8, I(4)>> >>

ForecastData == {FlatData, TiltData}

ZeroNoise == << <<2, Zero>>, <<8, Zero>> >>

UnitNoise == << <<2, One>>, <<8, One>> >>

NoiseData == {ZeroNoise, UnitNoise}

\* ngal arguments: galaxies per square arcminute, here 1/1.18e7 (one per steradian)
NgalValues == { R(1, 11800000) }

\* shapeNoise arguments; None and values below 1e-9 select the default 0.3
NoShape == <<>>

ShapeValues == { NoShape, One }

\* bin edges and sky fractions of the forecasts
BinEdges == { <<2, 5>>, <<4, 6, 10>> }

FskyValues == { R(1, 2) }

Interp(data) == [kind |-> "interp", data |-> data]

ForecastEntry(data) == Entry(data, DefaultLpad, TRUE)

Flags == {"KK", "KG", "GG", "SS", "SG", "KS"}

\* LensForecast.__init__(theory=None)
InitForecast ==
    /\ Nls = EmptyTab
    /\ have = [f \in Flags |-> FALSE]

Set(flag) == [have EXCEPT ![flag] = TRUE]

\* LensForecast.loadKK(ellsCls, Cls, ellsNls, Nls)
loadKK ==
    \E d \in ForecastData, n \in NoiseData :
        /\ Nls' = Put(Nls, kk, Interp(n))
        /\ gClTab' = Put(gClTab, kk, ForecastEntry(d))
        /\ have' = Set("KK")
        /\ UNCHANGED <<uClTab, lClTab, kernels, kernelOrder, Clmatrix, ellrange, lastCall, nOps, output>>

\* LensForecast.loadGG(ellsCls, Cls, ngal)
loadGG ==
    \E d \in ForecastData, ngal \in NgalValues :
        /\ Nls' = Put(Nls, gg, [kind |-> "shot", ngal |-> ngal])
        /\ gClTab' = Put(gClTab, gg, ForecastEntry(d))
        /\ have' = Set("GG")
        /\ UNCHANGED <<uClTab, lClTab, kernels, kernelOrder, Clmatrix, ellrange, lastCall, nOps, output>>

\* LensForecast.loadSS(ellsCls, Cls, ngal, shapeNoise=0.3)
loadSS ==
    \E d \in ForecastData, ngal \in NgalValues, shapeNoise \in ShapeValues :
        LET sn == IF shapeNoise = NoShape \/ Lt[shapeNoise, R(1, 1000000000)]
                  THEN R(3, 10) ELSE shapeNoise
        IN  /\ Nls' = Put(Nls, ss, [kind |-> "shape", ngal |-> ngal, shapeNoise |-> sn])
            /\ gClTab' = Put(gClTab, ss, ForecastEntry(d))
            /\ have' = Set("SS")
            /\ UNCHANGED <<uClTab, lClTab, kernels, kernelOrder, Clmatrix, ellrange, lastCall, nOps, output>>

\* LensForecast.loadSG(ellsCls, Cls)
loadSG ==
    \E d \in ForecastData :
        /\ gClTab' = Put(gClTab, sg, ForecastEntry(d))
        /\ have' = Set("SG")
        /\ UNCHANGED <<uClTab, lClTab, Nls, kernels, kernelOrder, Clmatrix, ellrange, lastCall, nOps, output>>

\* LensForecast.loadKG(ellsCls, Cls)
loadKG ==
    \E d \in ForecastData :
        /\ gClTab' = Put(gClTab, kg, ForecastEntry(d))
        /\ have' = Set("KG")
        /\ UNCHANGED <<uClTab, lClTab, Nls, kernels, kernelOrder, Clmatrix, ellrange, lastCall, nOps, output>>

\* LensForecast.loadKS(ellsCls, Cls)
loadKS ==
    \E d \in ForecastData :
        /\ gClTab' = Put(gClTab, ks, ForecastEntry(d))
        /\ have' = Set("KS")
        /\ UNCHANGED <<uClTab, lClTab, Nls, kernels, kernelOrder, Clmatrix, ellrange, lastCall, nOps, output>>

\* specType arguments of LensForecast.loadGenericCls explored
ForecastGenericTypes == {gg, ss}

NoNoise == <<>>

\* LensForecast.loadGenericCls(specType, ellsCls, Cls, ellsNls=None, Nls=None)
loadForecastGenericCls ==
    \E specType \in ForecastGenericTypes, d \in ForecastData, n \in {NoNoise, ZeroNoise} :
        /\ Nls' = IF n # NoNoise THEN Put(Nls, specType, Interp(n)) ELSE Nls
        /\ gClTab' = Put(gClTab, specType, ForecastEntry(d))
        /\ UNCHANGED <<uClTab, lClTab, have, kernels, kernelOrder, Clmatrix, ellrange, lastCall, nOps, output>>

----------------------------------------------------------------------------
(* LimberCosmology *)

(* The cosmology is a toy one.  camb (the background solver and the matter  *)
(* power interpolator) is outside the repository, and physical magnitudes   *)
(* (c = 299792.458 km/s, chi ~ 1e4 Mpc, H/c ~ 1e-4 / Mpc) do not fit TLC's     *)
(* 32-bit integers once multiplied.  The model keeps every formula of the   *)
(* source and feeds it small rational values: a linear distance-redshift    *)
(* relation (the Hubble law), a Hubble rate, a power spectrum and a speed   *)
(* of light.                                                                *)

\* numz of LimberCosmology.__init__: the number of grid points before trimming
NumZ == 6

\* numzIntegral of addStepNz / addNz: the points of the inner trapezoid rule
NumzIntegral == 3

cSpeedKmPerSec == I(10)

\* omch2 + ombh2 + omnuh2
omh2 == R(1, 3000)

ChiStep == I(2000)

\* self.chistar = results.conformal_time(0) - model.tau_maxvis.value
chistar == Mul[ChiStep, I(NumZ - 1)]

\* the comoving distance per unit redshift of the toy background
HubbleLength == I(4000)

\* results.comoving_radial_distance(z)
comoving_radial_distance(z) == Mul[HubbleLength, z]

\* results.redshift_at_comoving_radial_distance(chi)
redshift_at_comoving_radial_distance(chi) == Div[chi, HubbleLength]

\* results.hubble_parameter(z)
hubble_parameter(z) == Mul[Mul[cSpeedKmPerSec, I(100)], Add[One, z]]

\* self.PK.P(z, k, grid=False) at one point
PowerP(z, k) == Div[One, Mul[k, Add[One, z]]]

\* self.kmax
kmax == R(3, 10)

\* the low-k cutoff 1e-4 of generateCls
kmin == R(1, 10000)

\* np.linspace(a, b, n)
linspace(a, b, n) == [j \in 1..n |-> Add[a, Div[Mul[Sub[b, a], I(j - 1)], I(n - 1)]]]

\* (x[2:] - x[:-2])/2
CentralHalf(x) == [j \in 1..(Len(x) - 2) |-> Div[Sub[x[j + 2], x[j]], I(2)]]

\* x[1:-1]
Inner(x) == [j \in 1..(Len(x) - 2) |-> x[j + 1]]

chisRaw == linspace(Zero, chistar, NumZ)

zsRaw == [j \in 1..NumZ |-> redshift_at_comoving_radial_distance(chisRaw[j])]

\* self.dchis, self.chis, self.zs, self.Hzs after __init__
dchis == CentralHalf(chisRaw)

chis == Inner(chisRaw)

zs == Inner(zsRaw)

Hzs == [j \in 1..Len(zs) |-> hubble_parameter(zs[j])]

Grid == 1..Len(chis)

\* self.precalcFactor = Hzs**2. /chis/chis/_cSpeedKmPerSec**2.
precalcFactor ==
    [j \in Grid |-> Div[Div[Div[Sq[Hzs[j]], chis[j]], chis[j]], Sq[cSpeedKmPerSec]]]

\* 1.5*(omch2+ombh2+omnuh2)*100.*100.*(1.+zs)*chis/Hzs/_cSpeedKmPerSec at grid point j
lensPrefactor(j) ==
    Div[Div[Mul[Mul[Mul[Mul[Mul[R(3, 2), omh2], I(100)], I(100)], Add[One, zs[j]]], chis[j]],
            Hzs[j]], cSpeedKmPerSec]

None == <<>>

cmb == <<"c", "m", "b">>

\* LimberCosmology._initWkappaCMB
initWkappaCMB ==
    [W        |-> [j \in Grid |->
                     Div[Div[Mul[Mul[Mul[Mul[Mul[Mul[R(3, 2), omh2], I(100)], I(100)],
                                         Add[One, zs[j]]], chis[j]],
                                 Div[Sub[chistar, chis[j]], chistar]],
                             Hzs[j]], cSpeedKmPerSec]],
     window_z |-> [j \in Grid |-> Div[Sub[chistar, chis[j]], chistar]]]

\* kernel['dndz'](z) for a step or histogram kernel
dndzAt(kernel, z) ==
    IF kernel.dndz.kind = "step" THEN Div[One, kernel.dndz.normStep]
    ELSE interp1dF(kernel.dndz.pts, Zero, z)

\* zStart = max(znow,kernel['zmin']) at grid point j
zStart(kernel, j) == IF Lt[zs[j], kernel.zmin] THEN kernel.zmin ELSE zs[j]

\* _galFunc(z) at grid point j
galFunc(kernel, j, z) ==
    Mul[dndzAt(kernel, z), Sub[One, Div[chis[j], comoving_radial_distance(z)]]]

\* np.dot(dzs, [_galFunc(zp) for zp in zs[1:-1]]) for the points zpts of linspace
galDot(kernel, j, zpts) ==
    Dot(CentralHalf(zpts), [m \in 1..(Len(zpts) - 2) |-> galFunc(kernel, j, zpts[m + 1])])

\* The inner integral _galInt of _lensWindow at grid point j, for znow <= zmax
galInt(kernel, numzIntegral, j) ==
    galDot(kernel, j, linspace(zStart(kernel, j), kernel.zmax, numzIntegral))

\* _lensWindow without retvals[self.zs>zthis] = 0. in the delta branch
lensWindowNoCut(kernel, numzIntegral) ==
    IF kernel.dndz.kind = "delta"
    THEN [j \in Grid |-> Sub[One, Div[chis[j], comoving_radial_distance(kernel.zdelta)]]]
    ELSE [j \in Grid |->
             IF Lt[kernel.zmax, zs[j]] THEN Zero ELSE galInt(kernel, numzIntegral, j)]

\* LimberCosmology._lensWindow(kernel, numzIntegral)
lensWindow(kernel, numzIntegral) ==
    IF kernel.dndz.kind = "delta"
    THEN [j \in Grid |->
             IF Lt[kernel.zdelta, zs[j]] THEN Zero
             ELSE Sub[One, Div[chis[j], comoving_radial_distance(kernel.zdelta)]]]
    ELSE [j \in Grid |->
             IF Lt[kernel.zmax, zs[j]] THEN Zero ELSE galInt(kernel, numzIntegral, j)]

\* _generateWindow, bias == None: window_z, W and type written from retvals
lensingKernel(kernel, retvals) ==
    [window_z |-> retvals,
     W        |-> [j \in Grid |-> Mul[retvals[j], lensPrefactor(j)]],
     type     |-> "lensing"] @@ kernel

\* _generateWindow, bias given: W = zs*0.+bias*dndz(zs), zeroed outside [zmin, zmax]
countsW(kernel, bias) ==
    [j \in Grid |->
        IF Lt[zs[j], kernel.zmin] \/ Lt[kernel.zmax, zs[j]] THEN Zero
        ELSE Add[Mul[zs[j], Zero], Mul[bias, dndzAt(kernel, zs[j])]]]

\* magcorrection = retvals*1.5*(omch2+ombh2+omnuh2)*100.*100.*(1.+zs)*chis
\*                 *(5.*magbias-2.)/Hzs**2./_cSpeedKmPerSec
magcorrection(retvals, magbias) ==
    [j \in Grid |->
        Div[Div[Mul[Mul[Mul[Mul[Mul[Mul[Mul[retvals[j], R(3, 2)], omh2], I(100)],
                                I(100)], Add[One, zs[j]]], chis[j]],
                    Sub[Mul[I(5), magbias], I(2)]],
                Sq[Hzs[j]]], cSpeedKmPerSec]]

\* W += magcorrection
addArrays(a, b) == [j \in Grid |-> Add[a[j], b[j]]]

\* the two percent diagnostics _generateWindow prints when magbias is given:
\* np.nan_to_num(magcorrection*100./W) for the final W
percentCorrection(kernel, bias, magbias, numzIntegral) ==
    [j \in Grid |->
        nan_to_num[Div[Mul[magcorrection(lensWindow(kernel, numzIntegral), magbias)[j], I(100)],
                       addArrays(countsW(kernel, bias),
                                 magcorrection(lensWindow(kernel, numzIntegral), magbias))[j]]]]

\* _generateWindow without `assert self.kernels[tag]['dndz']!="delta"`, the
\* delta record passing through the counts branch untouched
generateWindowNoAssert(kernel, bias, magbias, numzIntegral) ==
    IF bias = None
    THEN [err |-> "none", kernel |-> lensingKernel(kernel, lensWindow(kernel, numzIntegral))]
    ELSE IF kernel.dndz.kind = "delta"
    THEN [err |-> "none", kernel |-> kernel]
    ELSE [err |-> "none",
          kernel |-> [W |-> IF magbias = None THEN countsW(kernel, bias)
                            ELSE addArrays(countsW(kernel, bias),
                                           magcorrection(lensWindow(kernel, numzIntegral),
                                                         magbias)),
                      type |-> "counts"] @@ kernel]

\* LimberCosmology._generateWindow(tag, bias, magbias, numzIntegral) applied to
\* the kernel record under construction: the record it leaves in self.kernels[tag]
\* and the error it raises, if any
generateWindow(kernel, bias, magbias, numzIntegral) ==
    IF bias = None
    THEN [err |-> "none", kernel |-> lensingKernel(kernel, lensWindow(kernel, numzIntegral))]
    ELSE IF kernel.dndz.kind = "delta"
    THEN [err |-> "AssertionError", kernel |-> kernel]
    ELSE [err |-> "none",
          kernel |-> [W |-> IF magbias = None THEN countsW(kernel, bias)
                            ELSE addArrays(countsW(kernel, bias),
                                           magcorrection(lensWindow(kernel, numzIntegral),
                                                         magbias)),
                      type |-> "counts"] @@ kernel]

\* Bound on the number of LimberCosmology calls explored after construction
MaxCalls == 3

comma == <<",">>

g == <<"g">>

\* Tags handed to the builders: "cmb", "g", "cmb,g" and "g,cmb"
Tags == { cmb, g, cmb \o comma \o g, g \o comma \o cmb }

ZSources == { R(3, 4), I(3) }

BiasValues == { None, I(2) }

MagbiasValues == { None, R(1002, 5) }

StepZmin == R(1, 2)

StepZmax == R(3, 2)

NzEdges == << Zero, One, I(2) >>

NzCounts == << One, One >>

\* ellrange, zmin arguments of generateCls
EllRanges == { <<0, 1500>>, <<1500, 0>>, <<1500>> }

ZminValues == { Zero, R(3, 4) }

NoClmatrix == [has |-> FALSE, tab |-> EmptyTab]

\* LimberCosmology.__init__: the registry holds the CMB kernel; generateCls
\* has not run, so the object has no Clmatrix attribute
InitLimber ==
    /\ kernels = [t \in {cmb} |-> initWkappaCMB]
    /\ kernelOrder = <<cmb>>
    /\ Clmatrix = NoClmatrix
    /\ ellrange = <<>>

\* The record of a builder call: its tag, how it ended, its ignore_exists flag
\* and whether the tag was in self.kernels when the call was made
LimberCall(op, tag, err, ignore_exists) ==
    [op |-> op, key |-> tag, err |-> err, ignore_exists |-> ignore_exists,
     existed |-> tag \in DOMAIN kernels]

\* self.kernels[tag] after the call: the record built, in the place the tag
\* already has in the dict or at its end
assigned(tag, built) ==
    [err     |-> built.err,
     kernels |-> Put(kernels, tag, built.kernel),
     order   |-> IF tag \in DOMAIN kernels THEN kernelOrder ELSE Append(kernelOrder, tag)]

\* the builders' body without the "Tag already exists." assertion
addKernelOverwrite(tag, base, bias, magbias, numzIntegral, ignore_exists) ==
    IF tag = cmb
    THEN [err |-> "AssertionError", kernels |-> kernels, order |-> kernelOrder]
    ELSE assigned(tag, generateWindow(base, bias, magbias, numzIntegral))

\* the builders' body without the assertion that reserves the tag "cmb"
addKernelNoReserved(tag, base, bias, magbias, numzIntegral, ignore_exists) ==
    IF ~ignore_exists /\ tag \in DOMAIN kernels
    THEN [err |-> "AssertionError", kernels |-> kernels, order |-> kernelOrder]
    ELSE assigned(tag, generateWindow(base, bias, magbias, numzIntegral))

\* The body shared by addDeltaNz, addStepNz and addNz: the two assertions,
\* self.kernels[tag] = {...} and the call of _generateWindow.  An exception
\* raised by _generateWindow leaves the record assigned so far in the registry.
\* The result is the registry, its key order and the error raised, if any.
addKernel(tag, base, bias, magbias, numzIntegral, ignore_exists) ==
    IF (~ignore_exists /\ tag \in DOMAIN kernels) \/ tag = cmb
    THEN [err |-> "AssertionError", kernels |-> kernels, order |-> kernelOrder]
    ELSE assigned(tag, generateWindow(base, bias, magbias, numzIntegral))

\* LimberCosmology.addDeltaNz(tag, zsource, bias, magbias, ignore_exists)
addDeltaNz ==
    /\ nOps < MaxCalls
    /\ \E tag \in Tags, zsource \in ZSources, bias \in BiasValues, ignore_exists \in BOOLEAN :
        \E r \in {addKernel(tag, [dndz |-> [kind |-> "delta"], zdelta |-> zsource],
                           bias, None, None, ignore_exists)} :
            /\ nOps' = nOps + 1
            /\ kernels' = r.kernels
            /\ kernelOrder' = r.order
            /\ lastCall' = LimberCall("addDeltaNz", tag, r.err, ignore_exists)
            /\ UNCHANGED <<uClTab, lClTab, gClTab, Nls, have, Clmatrix, ellrange, output>>

\* LimberCosmology.addStepNz(tag, zmin, zmax, bias, magbias, numzIntegral, ignore_exists)
addStepNz ==
    /\ nOps < MaxCalls
    /\ \E tag \in Tags, bias \in BiasValues, ignore_exists \in BOOLEAN :
        \E r \in {addKernel(tag,
                           [zmin |-> StepZmin, zmax |-> StepZmax,
                            dndz |-> [kind |-> "step", normStep |-> Sub[StepZmax, StepZmin]]],
                           bias, None, NumzIntegral, ignore_exists)} :
            /\ nOps' = nOps + 1
            /\ kernels' = r.kernels
            /\ kernelOrder' = r.order
            /\ lastCall' = LimberCall("addStepNz", tag, r.err, ignore_exists)
            /\ UNCHANGED <<uClTab, lClTab, gClTab, Nls, have, Clmatrix, ellrange, output>>

\* min and max of an array
MinOf(x) == CHOOSE a \in {x[j] : j \in 1..Len(x)} : \A j \in 1..Len(x) : Le[a, x[j]]

MaxOf(x) == CHOOSE a \in {x[j] : j \in 1..Len(x)} : \A j \in 1..Len(x) : Le[x[j], a]

\* the kernel record addNz assigns before it calls _generateWindow
nzKernel(zedges, nz) ==
    LET n     == Len(zedges) - 1
        dzs   == [j \in 1..n |-> Sub[zedges[j + 1], zedges[j]]]
        norm  == Dot(dzs, nz)
        zmids == [j \in 1..n |-> Div[Add[zedges[j + 1], zedges[j]], I(2)]]
    IN  [dndz |-> [kind |-> "interp", pts |-> [j \in 1..n |-> <<zmids[j], Div[nz[j], norm]>>]],
         zmin |-> MinOf(zedges),
         zmax |-> MaxOf(zedges)]

\* LimberCosmology.addNz(tag, zedges, nz, bias, magbias, numzIntegral, ignore_exists)
addNz ==
    /\ nOps < MaxCalls
    /\ \E tag \in Tags, bias \in BiasValues, magbias \in MagbiasValues, ignore_exists \in BOOLEAN :
        \E r \in {addKernel(tag, nzKernel(NzEdges, NzCounts), bias, magbias, NumzIntegral,
                           ignore_exists)} :
            /\ nOps' = nOps + 1
            /\ kernels' = r.kernels
            /\ kernelOrder' = r.order
            /\ lastCall' = LimberCall("addNz", tag, r.err, ignore_exists)
            /\ UNCHANGED <<uClTab, lClTab, gClTab, Nls, have, Clmatrix, ellrange, output>>

\* key1+","+key2
PairKey(key1, key2) == key1 \o comma \o key2

\* itertools.combinations_with_replacement(keys, 2), from position i on
RECURSIVE combinations_with_replacement(_, _)
combinations_with_replacement(keys, i) ==
    IF i > Len(keys) THEN <<>>
    ELSE [j \in 1..(Len(keys) - i + 1) |-> <<keys[i], keys[i + j - 1]>>]
             \o combinations_with_replacement(keys, i + 1)

listKeys(autoOnly) ==
    IF autoOnly THEN [i \in 1..Len(kernelOrder) |-> <<kernelOrder[i], kernelOrder[i]>>]
    ELSE combinations_with_replacement(kernelOrder, 1)

\* k = (ell+0.5)/self.chis
WaveNumber(ell) == [j \in Grid |-> Div[Add[I(ell), R(1, 2)], chis[j]]]

\* the mask without w[:]=1: a point zeroed at one multipole stays zeroed
MaskStepNoReset(w, k) ==
    [j \in Grid |-> IF Lt[k[j], kmin] \/ Le[kmax, k[j]] THEN Zero ELSE w[j]]

\* the mask without w[k>=self.kmax]=0
MaskStepNoKmax(w, k) ==
    [j \in Grid |-> IF Lt[k[j], kmin] THEN Zero ELSE One]

\* w[:]=1; w[k<1e-4]=0; w[k>=self.kmax]=0 applied to the mask array w
MaskStep(w, k) ==
    [j \in Grid |-> IF Lt[k[j], kmin] \/ Le[kmax, k[j]] THEN Zero ELSE One]

\* common = ((w*pkin)*self.precalcFactor), before the selection [self.zs>=zmin]
Common(w, k) ==
    [j \in Grid |-> Mul[Mul[w[j], PowerP(zs[j], k[j])], precalcFactor[j]]]

\* the indices selected by [self.zs>=zmin], ascending
RECURSIVE Selected(_, _)
Selected(zmin, j) ==
    IF j > Len(zs) THEN <<>>
    ELSE (IF Le[zmin, zs[j]] THEN <<j>> ELSE <<>>) \o Selected(zmin, j + 1)

\* estCl = np.dot(dchis[zs>=zmin], common*(W1*W2)[zs>=zmin])
estCl(common, W1, W2, zmin) ==
    LET sel == Selected(zmin, 1) IN
    Dot([m \in 1..Len(sel) |-> dchis[sel[m]]],
        [m \in 1..Len(sel) |-> Mul[common[sel[m]], Mul[W1[sel[m]], W2[sel[m]]]]])

\* the inner loop of generateCls: for key1,key2 in listKeys: retList[...].append(estCl)
RECURSIVE PairLoop(_, _, _, _, _)
PairLoop(pairs, i, retList, common, zmin) ==
    IF i > Len(pairs) THEN retList
    ELSE LET key == PairKey(pairs[i][1], pairs[i][2])
             est == estCl(common, kernels[pairs[i][1]].W, kernels[pairs[i][2]].W, zmin)
         IN  PairLoop(pairs, i + 1, [retList EXCEPT ![key] = Append(@, est)], common, zmin)

\* the outer loop of generateCls: for ell in ellrange, with the mask array w
\* allocated before the loop
RECURSIVE EllLoop(_, _, _, _, _, _)
EllLoop(ells, i, w, retList, pairs, zmin) ==
    IF i > Len(ells) THEN retList
    ELSE LET k  == WaveNumber(ells[i])
             w1 == MaskStep(w, k)
         IN  EllLoop(ells, i + 1, w1, PairLoop(pairs, 1, retList, Common(w1, k), zmin),
                     pairs, zmin)

\* LimberCosmology.generateCls(ellrange, autoOnly, zmin)
generateCls ==
    /\ nOps < MaxCalls
    /\ \E ells \in EllRanges, autoOnly \in BOOLEAN, zmin \in ZminValues :
        LET pairs == listKeys(autoOnly)
            keys  == {PairKey(pairs[i][1], pairs[i][2]) : i \in 1..Len(pairs)}
            ret0  == [key \in keys |-> <<>>]
            w0    == [j \in Grid |-> One]
        IN  /\ nOps' = nOps + 1
            /\ IF \E t \in DOMAIN kernels : "W" \notin DOMAIN kernels[t]
               THEN /\ lastCall' = Call("generateCls", [autoOnly |-> autoOnly, zmin |-> zmin], "KeyError")
                    /\ UNCHANGED <<Clmatrix, ellrange>>
               ELSE /\ Clmatrix' = [has |-> TRUE, tab |-> EllLoop(ells, 1, w0, ret0, pairs, zmin)]
                    /\ ellrange' = ells
                    /\ lastCall' = Call("generateCls", [autoOnly |-> autoOnly, zmin |-> zmin], "none")
            /\ UNCHANGED <<uClTab, lClTab, gClTab, Nls, have, kernels, kernelOrder, output>>

\* getCl without the except-KeyError branch: only key1+","+key2 is tried
getClNoFallback(key1, key2) ==
    IF ~Clmatrix.has THEN Raise("AttributeError")
    ELSE IF PairKey(key1, key2) \in DOMAIN Clmatrix.tab THEN Ok(Clmatrix.tab[PairKey(key1, key2)])
    ELSE Raise("KeyError")

\* LimberCosmology.getCl(key1, key2)
getCl(key1, key2) ==
    IF ~Clmatrix.has THEN Raise("AttributeError")
    ELSE IF PairKey(key1, key2) \in DOMAIN Clmatrix.tab THEN Ok(Clmatrix.tab[PairKey(key1, key2)])
    ELSE IF PairKey(key2, key1) \in DOMAIN Clmatrix.tab THEN Ok(Clmatrix.tab[PairKey(key2, key1)])
    ELSE Raise("KeyError")

----------------------------------------------------------------------------
(* loadTheorySpectraFromPycambResults and its files under output/ *)

TT == <<"T", "T">>

EE == <<"E", "E">>

BB == <<"B", "B">>

\* from math import pi, as a rational
Pi == R(355, 113)

\* The pycamb results explored: two cosmologies, which stand for the pair
\* (results, pars) a call is given.
Results == {"fiducial", "heavy"}

Amplitude(results) == IF results = "fiducial" THEN 1 ELSE 2

\* kellmax arguments and the days (time.strftime('%Y%m%d')) of the calls explored
Kellmaxes == {3, 4}

Dates == {"20170301", "20170302"}

SuffixOrder == <<"unlensed_scalar", "lensed_scalar", "unlensed_total", "total">>

SuffixIndex(s) == CHOOSE j \in 1..Len(SuffixOrder) : SuffixOrder[j] = s

\* results.get_cmb_power_spectra(pars): spectrum name -> rows for ell = 0, 1,
\* 2, 3 with the columns TT, EE, BB, TE (row r is ell = r - 1).  The values
\* are sample data that differ with the cosmology, the spectrum and the column.
get_cmb_power_spectra(results) ==
    [s \in {SuffixOrder[j] : j \in 1..Len(SuffixOrder)} |->
        [r \in 1..4 |->
            [i \in 1..4 |-> I((r - 1) * r * Amplitude(results) * SuffixIndex(s) * i)]]]

\* results.get_lens_potential_cls(lmax=kellmax): rows for ell = 0..kellmax,
\* columns PP, PT, PE
get_lens_potential_cls(results, kellmax) ==
    [r \in 1..(kellmax + 1) |-> <<I(Amplitude(results) * r), Zero, Zero>>]

\* "output/clsAll_"+str(kellmax)+"_"+time.strftime('%Y%m%d')+".pkl", kept as
\* the parts that are concatenated
clsAllFile(kellmax, date) == <<"output/clsAll_", kellmax, "_", date, ".pkl">>

\* "output/clphi_"+str(kellmax)+"_"+time.strftime('%Y%m%d')+".txt"
clphiFile(kellmax, date) == <<"output/clphi_", kellmax, "_", date, ".txt">>

\* pickle.dump(obj, f) and pickle.load(f): the blob holds the object
pickle_dump(obj) == [format |-> "pickle", obj |-> obj]

pickle_load(files, name) ==
    IF name \in DOMAIN files /\ files[name].format = "pickle"
    THEN [err |-> "none", obj |-> files[name].obj]
    ELSE [err |-> "IOError", obj |-> <<>>]

\* np.savetxt(f, arr): one line per element, each written with '%.18e', which
\* is enough digits to give back the same float
savetxt(arr) == [format |-> "text", lines |-> arr]

\* np.loadtxt(f): the file's numbers; a file of a single number gives a
\* zero-dimensional array
loadtxt(files, name) ==
    IF name \in DOMAIN files /\ files[name].format = "text"
    THEN [err |-> "none", ndim |-> IF Len(files[name].lines) = 1 THEN 0 ELSE 1,
          arr |-> files[name].lines]
    ELSE [err |-> "IOError", ndim |-> 1, arr |-> <<>>]

\* cmbmat[suffix][2:,i]
Column(cmbmat, suffix, i) ==
    [j \in 1..(Len(cmbmat[suffix]) - 2) |-> cmbmat[suffix][j + 2][i]]

\* ells = np.arange(2,len(cls)+2,1); cls *= 2.*np.pi/ells/(ells+1.)*tmul, with
\* tmul = 1 (get_dimensionless); the result as pairs <<ell, Cl>>
ScaledCls(cls) ==
    [j \in 1..Len(cls) |->
        <<j + 1, Mul[cls[j], Div[Div[Mul[I(2), Pi], I(j + 1)], I(j + 2)]]>>]

\* clkk = clphi*(2.*np.pi/4.); ells = np.arange(2,len(clkk)+2,1)
ClkkOf(clphi) ==
    [j \in 1..Len(clphi) |-> <<j + 1, Mul[clphi[j], Div[Mul[I(2), Pi], I(4)]]>>]

\* theory = TheorySpectra()
NewTheory == [uCl |-> EmptyTab, lCl |-> EmptyTab, gCl |-> EmptyTab]

\* theory.loadCls(ells,cls,pol,lensed=...,lpad=lpad,fill_zero=fill_zero) with
\* the loader's defaults lpad=9000, fill_zero=False
theoryLoadCls(theory, data, pol, lensed) ==
    IF lensed
    THEN [theory EXCEPT !.lCl = Put(theory.lCl, pol, Entry(data, DefaultLpad, FALSE))]
    ELSE [theory EXCEPT !.uCl = Put(theory.uCl, pol, Entry(data, DefaultLpad, FALSE))]

\* for i,pol in enumerate(['TT','EE','BB','TE']): the lensed column, then the
\* unlensed one (the lensed column again with unlensedEqualsLensed)
RECURSIVE PolLoop(_, _, _, _, _, _)
PolLoop(cmbmat, uSuffix, lSuffix, unlensedEqualsLensed, i, theory) ==
    LET pols == <<TT, EE, BB, <<"T", "E">>>> IN
    IF i > Len(pols) THEN theory
    ELSE LET withLensed == theoryLoadCls(theory, ScaledCls(Column(cmbmat, lSuffix, i)),
                                         pols[i], TRUE)
             from == IF unlensedEqualsLensed THEN lSuffix ELSE uSuffix
         IN  PolLoop(cmbmat, uSuffix, lSuffix, unlensedEqualsLensed, i + 1,
                     theoryLoadCls(withLensed, ScaledCls(Column(cmbmat, from, i)),
                                   pols[i], FALSE))

\* the first try/except: the spectra dictionary and the files afterwards
cmbmatStep(results, kellmax, date, pickling, files) ==
    LET cached == pickle_load(files, clsAllFile(kellmax, date)) IN
    IF pickling /\ cached.err = "none"
    THEN [cmbmat |-> cached.obj, files |-> files]
    ELSE [cmbmat |-> get_cmb_power_spectra(results),
          files |-> IF pickling
                    THEN Put(files, clsAllFile(kellmax, date),
                             pickle_dump(get_cmb_power_spectra(results)))
                    ELSE files]

\* the second try/except: clphi and the files afterwards
clphiStep(results, kellmax, date, pickling, files) ==
    LET cached == loadtxt(files, clphiFile(kellmax, date))
        lensArr == get_lens_potential_cls(results, kellmax)
        clphi == [j \in 1..(Len(lensArr) - 2) |-> lensArr[j + 2][1]]
    IN  IF pickling /\ cached.err = "none"
        THEN [ndim |-> cached.ndim, clphi |-> cached.arr, files |-> files]
        ELSE [ndim |-> 1, clphi |-> clphi,
              files |-> IF pickling
                        THEN Put(files, clphiFile(kellmax, date), savetxt(clphi))
                        ELSE files]

\* loadTheorySpectraFromPycambResults(results, pars, kellmax,
\*     unlensedEqualsLensed, useTotal, pickling=pickling) called on the day
\* date with the directory output/ holding files: the theory it returns and
\* the files afterwards.  len(clkk) raises TypeError for a zero-dimensional
\* clphi.
FromPycambResults(results, kellmax, date, unlensedEqualsLensed, useTotal, pickling, files) ==
    LET uSuffix == IF useTotal THEN "unlensed_total" ELSE "unlensed_scalar"
        lSuffix == IF useTotal THEN "total" ELSE "lensed_scalar"
        first   == cmbmatStep(results, kellmax, date, pickling, files)
        second  == clphiStep(results, kellmax, date, pickling, first.files)
        cmb4    == PolLoop(first.cmbmat, uSuffix, lSuffix, unlensedEqualsLensed, 1, NewTheory)
    IN  IF second.ndim = 0
        THEN [err |-> "TypeError", theory |-> cmb4, files |-> second.files]
        ELSE [err |-> "none",
              theory |-> [cmb4 EXCEPT !.gCl = Put(cmb4.gCl, kk,
                              Entry(ClkkOf(second.clphi), DefaultLpad, FALSE))],
              files |-> second.files]

\* One call of loadTheorySpectraFromPycambResults; the TheorySpectra it
\* returns becomes the object the tables describe.
loadTheorySpectraFromPycambResults ==
    \E results \in Results, kellmax \in Kellmaxes, date \in Dates,
       unlensedEqualsLensed \in BOOLEAN, useTotal \in BOOLEAN, pickling \in BOOLEAN :
        /\ nOps < MaxCalls
        /\ nOps' = nOps + 1
        /\ \E r \in {FromPycambResults(results, kellmax, date, unlensedEqualsLensed,
                                       useTotal, pickling, output)} :
            /\ uClTab' = r.theory.uCl
            /\ lClTab' = r.theory.lCl
            /\ gClTab' = r.theory.gCl
            /\ output' = r.files
            /\ lastCall' = Call("loadTheorySpectraFromPycambResults",
                                [results |-> results, kellmax |-> kellmax, date |-> date,
                                 unlensedEqualsLensed |-> unlensedEqualsLensed,
                                 useTotal |-> useTotal, pickling |-> pickling], r.err)
        /\ UNCHANGED <<Nls, have, kernels, kernelOrder, Clmatrix, ellrange>>

----------------------------------------------------------------------------
(* Specifications: one per class and one for the loader, each from the     *)
(* freshly constructed objects and an empty output/ directory              *)

Init ==
    /\ InitTheory
    /\ InitForecast
    /\ InitLimber
    /\ output = EmptyTab
    /\ lastCall = Call("init", <<>>, "none")
    /\ nOps = 0

NextTheory == loadCls \/ loadGenericCls

SpecTheory == Init /\ [][NextTheory]_vars

NextForecast ==
    \/ loadKK
    \/ loadGG
    \/ loadSS
    \/ loadSG
    \/ loadKG
    \/ loadKS
    \/ loadForecastGenericCls

SpecForecast == Init /\ [][NextForecast]_vars

NextLimber == addDeltaNz \/ addStepNz \/ addNz \/ generateCls

SpecLimber == Init /\ [][NextLimber]_vars

NextPycamb == loadTheorySpectraFromPycambResults

SpecPycamb == Init /\ [][NextPycamb]_vars

Next == NextTheory \/ NextForecast \/ NextLimber \/ NextPycamb

Spec == Init /\ [][Next]_vars

----------------------------------------------------------------------------
(* Properties of LimberCosmology.getCl after generateCls *)

\* the state right after a generateCls call that returned normally
AfterGenerateCls == lastCall.op = "generateCls" /\ lastCall.err = "none"

\* the tag holds no ","
CommaFree(tag) == \A i \in 1..Len(tag) : tag[i] # ","

\* both lookups return normally, with the same array
SameLookup(a, b) ==
    /\ getCl(a, b).err = "none"
    /\ getCl(b, a).err = "none"
    /\ getCl(a, b).val = getCl(b, a).val

\* C1 as stated: after any generateCls call that returned normally, for every two
\* tags a, b of the kernel registry getCl(a,b) and getCl(b,a) both return, and
\* return the same array.
C1_SymmetricAfterAnyGenerateCls ==
    AfterGenerateCls => \A a \in DOMAIN kernels, b \in DOMAIN kernels : SameLookup(a, b)

\* C1, amended: after a generateCls call with autoOnly false every pair of
\* registered tags is found in both orders, and two tags without a comma get the
\* same array in both orders; after a call with autoOnly true a tag paired with
\* itself is found, and two different tags without a comma are found in neither
\* order (KeyError).
C1_SymmetricLookup ==
    AfterGenerateCls =>
        \A a \in DOMAIN kernels, b \in DOMAIN kernels :
            IF lastCall.key.autoOnly
            THEN /\ getCl(a, a).err = "none"
                 /\ (a # b /\ CommaFree(a) /\ CommaFree(b)) =>
                        (getCl(a, b).err = "KeyError" /\ getCl(b, a).err = "KeyError")
            ELSE /\ getCl(a, b).err = "none"
                 /\ getCl(b, a).err = "none"
                 /\ (CommaFree(a) /\ CommaFree(b)) => SameLookup(a, b)

\* C1 witness: generateCls ran over all pairs with the tags "cmb" and "g"
\* registered, "g,cmb" is found only through the reversed key, and the cross
\* spectrum is not identically zero
C1_Witness ==
    /\ AfterGenerateCls
    /\ ~lastCall.key.autoOnly
    /\ g \in DOMAIN kernels
    /\ PairKey(g, cmb) \notin DOMAIN Clmatrix.tab
    /\ SameLookup(g, cmb)
    /\ \E i \in 1..Len(getCl(g, cmb).val) : getCl(g, cmb).val[i] # Zero

----------------------------------------------------------------------------
(* Properties of the Limber sum of generateCls *)

\* the wavenumber of grid point j at multipole ell
kAt(ell, j) == Div[Add[I(ell), R(1, 2)], chis[j]]

\* grid point j is kept at multipole ell: 1e-4 <= k < kmax and z >= zmin
Kept(ell, zmin, j) ==
    /\ Le[kmin, kAt(ell, j)]
    /\ Lt[kAt(ell, j), kmax]
    /\ Le[zmin, zs[j]]

\* dchi * P(z,k) * precalcFactor * W1 * W2 at grid point j
LimberTerm(ell, W1, W2, j) ==
    Mul[Mul[Mul[Mul[dchis[j], PowerP(zs[j], kAt(ell, j))], precalcFactor[j]], W1[j]], W2[j]]

\* the sum of the terms of the grid points kept, the others counting as zero
LimberSum(ell, W1, W2, zmin) ==
    SumSeq[[j \in Grid |-> IF Kept(ell, zmin, j) THEN LimberTerm(ell, W1, W2, j) ELSE Zero]]

\* the tracer pairs of the last generateCls call stored under the key, in
\* the order of the loop
PairsUnder(key) ==
    SelectSeq(listKeys(lastCall.key.autoOnly), LAMBDA p : PairKey(p[1], p[2]) = key)

\* the Limber sums of every multipole of ellrange, in order, for the pairs
\* stored under the key
LimberSums(key) ==
    LET ps == PairsUnder(key)
        n  == Len(ps)
    IN  [m \in 1..(Len(ellrange) * n) |->
            LimberSum(ellrange[((m - 1) \div n) + 1],
                      kernels[ps[((m - 1) % n) + 1][1]].W,
                      kernels[ps[((m - 1) % n) + 1][2]].W,
                      lastCall.key.zmin)]

\* C16: after generateCls, for every multipole of ellrange and every tracer
\* pair, the value stored is the sum over the grid points i of
\* dchi_i * P(z_i,k_i) * precalcFactor_i * W1_i * W2_i taken over the points with
\* 1e-4 <= k_i < kmax and z_i >= zmin, k_i = (ell+0.5)/chi_i; every other grid
\* point contributes zero.
C16_LimberSum ==
    AfterGenerateCls =>
        /\ DOMAIN Clmatrix.tab =
               { PairKey(a, b) : a \in DOMAIN kernels, b \in DOMAIN kernels } \cap
               { key \in DOMAIN Clmatrix.tab : PairsUnder(key) # <<>> }
        /\ \A key \in DOMAIN Clmatrix.tab : Clmatrix.tab[key] = LimberSums(key)

\* C16 witness: generateCls ran with zmin = 3/4 over the multipoles 0 and 1500;
\* each of the three cuts drops a grid point whose term is not zero, and the
\* value stored for the pair (cmb, cmb) at multipole 0 is not zero
C16_Witness ==
    /\ AfterGenerateCls
    /\ lastCall.key.zmin = R(3, 4)
    /\ ellrange = <<0, 1500>>
    /\ \E j \in Grid : Lt[zs[j], R(3, 4)]
    /\ \E j \in Grid : Lt[kAt(0, j), kmin] /\ Le[R(3, 4), zs[j]]
                       /\ LimberTerm(0, kernels[cmb].W, kernels[cmb].W, j) # Zero
    /\ \E j \in Grid : Le[kmax, kAt(1500, j)] /\ Le[R(3, 4), zs[j]]
                       /\ LimberTerm(1500, kernels[cmb].W, kernels[cmb].W, j) # Zero
    /\ \E j \in Grid : Kept(0, R(3, 4), j)
    /\ Clmatrix.tab[PairKey(cmb, cmb)][1] # Zero
    /\ Clmatrix.tab[PairKey(cmb, cmb)][1] =
           LimberSum(0, kernels[cmb].W, kernels[cmb].W, R(3, 4))

\* generateCls of the last call's kernels, autoOnly and zmin over the single
\* multipole ell
Alone(ell) ==
    EllLoop(<<ell>>, 1, [j \in Grid |-> One], [key \in DOMAIN Clmatrix.tab |-> <<>>],
            listKeys(lastCall.key.autoOnly), lastCall.key.zmin)

\* the values stored under every key for the i-th multipole of ellrange are
\* those in alone
SameAsAlone(i, alone) ==
    \A key \in DOMAIN Clmatrix.tab :
        /\ Len(Clmatrix.tab[key]) = Len(alone[key]) * Len(ellrange)
        /\ \A m \in 1..Len(alone[key]) :
               Clmatrix.tab[key][(i - 1) * Len(alone[key]) + m] = alone[key][m]

\* C17: after generateCls, the value stored for a multipole and a tracer pair
\* is the value generateCls stores when that multipole is the only one of
\* ellrange, whatever other multipoles ellrange holds and in whatever order:
\* the mask array reused across the loop carries nothing from one multipole
\* to the next.
C17_MultipoleIndependence ==
    AfterGenerateCls => \A i \in 1..Len(ellrange) : SameAsAlone(i, Alone(ellrange[i]))

\* C17 witness: generateCls ran over the multipoles 1500, 0 in that order; a
\* grid point zeroed in the mask at 1500 is kept at 0, where its term is not
\* zero, and the value stored for multipole 0 is not zero
C17_Witness ==
    /\ AfterGenerateCls
    /\ ellrange = <<1500, 0>>
    /\ lastCall.key.zmin = Zero
    /\ \E j \in Grid :
           /\ Le[kmax, kAt(1500, j)]
           /\ Kept(0, Zero, j)
           /\ LimberTerm(0, kernels[cmb].W, kernels[cmb].W, j) # Zero
    /\ Clmatrix.tab[PairKey(cmb, cmb)][2] # Zero
    /\ Clmatrix.tab[PairKey(cmb, cmb)][2] = Alone(0)[PairKey(cmb, cmb)][1]
    /\ Clmatrix.tab[PairKey(cmb, cmb)][1] # Clmatrix.tab[PairKey(cmb, cmb)][2]

----------------------------------------------------------------------------
(* Properties of TheorySpectra *)

TE == <<"T", "E">>

ET == <<"E", "T">>

EB == <<"E", "B">>

BE == <<"B", "E">>

TB == <<"T", "B">>

BT == <<"B", "T">>

PolTab(lensed) == IF lensed THEN lClTab ELSE uClTab

\* the three-character key of gCl: "u" or "l" followed by the code
Prefixed(lensed, code) == (IF lensed THEN <<"l">> ELSE <<"u">>) \o code

\* neither the key nor its reversal is in the generic table
NotGeneric(key) == key \notin DOMAIN gClTab /\ Reverse(key) \notin DOMAIN gClTab

\* C2 as stated: once a load call has been made, gCl("TE", l) and gCl("ET", l)
\* return the same value and gCl("EB", l) and gCl("TB", l) return 0, for every
\* multipole l, none of them raising.
C2_PolarizationKeysOfgCl ==
    nOps > 0 =>
        \A q \in Queries :
            /\ gCl(TE, q).err = "none"
            /\ gCl(ET, q).err = "none"
            /\ gCl(TE, q).val = gCl(ET, q).val
            /\ gCl(EB, q) = Ok(Zero)
            /\ gCl(TB, q) = Ok(Zero)

\* C2, amended: gCl looks a two-character key up in the generic table only.
\* "TE", "ET", "EB" and "TB" raise KeyError when neither the key nor its
\* reversal was loaded with loadGenericCls; gCl("TE", l) and gCl("ET", l) return
\* the same value when exactly one of the two was.  The polarization rules are
\* those of the three-character keys: gCl("uTE", l) and gCl("uET", l) (and
\* "lTE", "lET") end the same way with the same value, and gCl of "uEB", "lEB",
\* "uTB", "lTB" returns 0 when no spectrum is stored under that code.
C2_GenericKeysOfgCl ==
    \A q \in Queries :
        /\ \A key \in {TE, ET, EB, TB} : NotGeneric(key) => gCl(key, q).err = "KeyError"
        /\ ((TE \in DOMAIN gClTab) # (ET \in DOMAIN gClTab)) =>
               /\ gCl(TE, q).err = "none"
               /\ gCl(TE, q) = gCl(ET, q)
        /\ \A lensed \in BOOLEAN :
               /\ gCl(Prefixed(lensed, TE), q) = gCl(Prefixed(lensed, ET), q)
               /\ \A code \in {EB, TB} :
                      code \notin DOMAIN PolTab(lensed) =>
                          gCl(Prefixed(lensed, code), q) = Ok(Zero)

\* C2 witness: only "TE" is in the generic table, and gCl("ET", 3) finds it
\* through the reversed key, with a non-zero value
C2_Witness ==
    /\ TE \in DOMAIN gClTab
    /\ ET \notin DOMAIN gClTab
    /\ gCl(ET, IntQ(3)).err = "none"
    /\ gCl(ET, IntQ(3)).val # Zero
    /\ gCl(EB, IntQ(3)).err = "KeyError"

\* C3 as stated: once a spectrum is loaded with loadCls under "TE" or under "ET"
\* into the unlensed (lensed) table, uCl (lCl) queried with "TE" and with "ET"
\* both return, with the same value, for every multipole.
C3_TEandETSameEntry ==
    \A lensed \in BOOLEAN :
        (TE \in DOMAIN PolTab(lensed) \/ ET \in DOMAIN PolTab(lensed)) =>
            \A q \in Queries :
                /\ Cl(TE, q, lensed).err = "none"
                /\ Cl(ET, q, lensed).err = "none"
                /\ Cl(TE, q, lensed).val = Cl(ET, q, lensed).val

GclKeys ==
    GenericKeys \cup { Reverse(k) : k \in GenericKeys }
        \cup { <<c>> \o code : c \in {"u", "l", "U", "L"}, code \in {TE, ET, EB, <<"t", "e">>} }
        \cup { <<"k">> }

\* the entry of the generic table under the key or under its reversal
GenericLookup(key, q) ==
    IF key \in DOMAIN gClTab THEN Ok(EvalEntry(gClTab[key], q))
    ELSE IF Reverse(key) \in DOMAIN gClTab THEN Ok(EvalEntry(gClTab[Reverse(key)], q))
    ELSE Raise("KeyError")

\* C15 as stated: gCl of a three-character key whose first character is "u"
\* ("l"), in either case, is exactly uCl (lCl) of the other two characters,
\* whatever the generic table holds; gCl of any other key returns the generic
\* entry stored under the key or under its reversal, and raises when neither
\* is stored.
C15_AnyOtherKeyIsGeneric ==
    \A key \in GclKeys, q \in Queries :
        IF Len(key) = 3 /\ key[1] \in {"u", "U"} THEN gCl(key, q) = uCl(Tail(key), q)
        ELSE IF Len(key) = 3 /\ key[1] \in {"l", "L"} THEN gCl(key, q) = lCl(Tail(key), q)
        ELSE IF ~NotGeneric(key) THEN gCl(key, q) = GenericLookup(key, q)
        ELSE gCl(key, q).err # "none"

\* C15, amended: gCl of a three-character key whose first character is "u" or
\* "U" ("l" or "L") is exactly uCl (lCl) of the other two characters, whatever
\* the generic table holds; gCl of any other three-character key raises
\* ValueError, even when the key is stored in the generic table; gCl of a key
\* of any other length returns the generic entry stored under the key or
\* under its reversal, and raises KeyError when neither is stored.
C15_KeyResolution ==
    \A key \in GclKeys, q \in Queries :
        IF Len(key) = 3
        THEN IF key[1] \in {"u", "U"} THEN gCl(key, q) = uCl(Tail(key), q)
             ELSE IF key[1] \in {"l", "L"} THEN gCl(key, q) = lCl(Tail(key), q)
             ELSE gCl(key, q).err = "ValueError"
        ELSE IF ~NotGeneric(key) THEN gCl(key, q) = GenericLookup(key, q)
        ELSE gCl(key, q).err = "KeyError"

\* C15 witness: "kgs" and "kg" are in the generic table; gCl("kgs", 3) raises
\* ValueError, gCl("gk", 3) returns the entry of "kg"
C15_Witness ==
    /\ <<"k", "g", "s">> \in DOMAIN gClTab
    /\ kg \in DOMAIN gClTab
    /\ gCl(<<"k", "g", "s">>, IntQ(3)).err = "ValueError"
    /\ gCl(<<"g", "k">>, IntQ(3)) = Ok(EvalEntry(gClTab[kg], IntQ(3)))
    /\ gCl(<<"g", "k">>, IntQ(3)).val # Zero

\* C9 as stated: for a spectrum loaded with fill_zero=False and padding
\* multipole lpad, the value at every multipole l > lpad is fillval*(lpad/l)**4,
\* fillval being the last sample below lpad; at l = 2*lpad it is fillval/16.
C9_PowerLawTail ==
    \A key \in DOMAIN gClTab, q \in Queries :
        (Len(key) = 2 /\ ~gClTab[key].fill_zero /\ Lt[I(gClTab[key].lpad), q.v]) =>
            /\ gCl(key, q).err = "none"
            /\ gCl(key, q).val = Mul[FillVal(gClTab[key]), Pow4[Div[I(gClTab[key].lpad), q.v]]]
            /\ q.v = I(2 * gClTab[key].lpad) =>
                   gCl(key, q).val = Div[FillVal(gClTab[key]), I(16)]

----------------------------------------------------------------------------
(* Properties of LensForecast *)

AutoSpecs == {kk, gg, ss}

\* KnoxCov of the auto-spectrum XX with itself returns normally
KnoxReady(XX) == gCl(XX, IntQ(2)).err = "none" /\ XX \in DOMAIN Nls

\* sum of ell*(C_ell + N_ell) over ell = lo .. hi
RECURSIVE WeightedSum(_, _, _)
WeightedSum(XX, lo, hi) ==
    IF lo > hi THEN Zero
    ELSE Add[Mul[I(lo), Add[gCl(XX, IntQ(lo)).val, NoiseAt(Nls[XX], I(lo))]],
             WeightedSum(XX, lo + 1, hi)]

\* the multipole-weighted bin average of signal plus noise over [lo, hi]
BinAverage(XX, lo, hi) == Div[WeightedSum(XX, lo, hi), I(((hi - lo + 1) * (lo + hi)) \div 2)]

\* 2*(C+N)^2 / ((2*ellMid+1) * ellWidth * fsky) for the bin [lo, hi]
GaussianVariance(XX, lo, hi, fsky) ==
    Div[Mul[I(2), Sq[BinAverage(XX, lo, hi)]],
        Mul[Mul[I(lo + hi + 1), I(hi - lo)], fsky]]

\* C7: for an auto-spectrum XX whose signal and noise are loaded,
\* KnoxCov(XX, XX, ellBinEdges, fsky) returns for every bin the variance
\* 2*(C+N)^2 / ((2*ellMid+1)*ellWidth*fsky), C+N the multipole-weighted bin
\* average of signal plus noise.
C7_KnoxAutoVariance ==
    \A XX \in AutoSpecs, edges \in BinEdges, fsky \in FskyValues :
        KnoxReady(XX) =>
            LET r == KnoxCov(XX, XX, edges, fsky) IN
            /\ r.err = "none"
            /\ \A i \in 1..(Len(edges) - 1) :
                   r.covs[i] = GaussianVariance(XX, edges[i], edges[i + 1], fsky)

\* C7 witness: kk is loaded with the tilted spectrum and unit noise, and the
\* variance of the bin [4, 6] at fsky = 1/2 is finite and positive
C7_Witness ==
    /\ kk \in DOMAIN gClTab
    /\ gClTab[kk] = ForecastEntry(TiltData)
    /\ kk \in DOMAIN Nls
    /\ Nls[kk] = Interp(UnitNoise)
    /\ KnoxCov(kk, kk, <<4, 6, 10>>, R(1, 2)).err = "none"
    /\ IsFinite[KnoxCov(kk, kk, <<4, 6, 10>>, R(1, 2)).covs[1]]
    /\ Lt[Zero, KnoxCov(kk, kk, <<4, 6, 10>>, R(1, 2)).covs[1]]

\* the six spectra are all the same flat spectrum
AllFlat == \A key \in {kk, gg, ss, kg, ks, sg} :
               key \in DOMAIN gClTab /\ gClTab[key] = ForecastEntry(FlatData)

\* the three noise curves are zero
AllNoiseZero == \A key \in {kk, gg, ss} : key \in DOMAIN Nls /\ Nls[key] = Interp(ZeroNoise)

C6_NoNaNOrInfinity ==
    \A edges \in BinEdges, fsky \in FskyValues :
        /\ snReady =>
               LET r == snRatio(edges, fsky) IN
               /\ IsFinite[r.signum]
               /\ IsFinite[r.sigden]
               /\ IsFinite[r.sumchisq]
               /\ IsFinite[r.maxlike]
               /\ IsFinite[percentRsq(r)]
               /\ IsFinite[snRsq(r)]
        /\ \A XX \in AutoSpecs :
               KnoxReady(XX) =>
                   LET c == KnoxCov(XX, XX, edges, fsky) IN
                   \A i \in 1..(Len(edges) - 1) :
                       IsFinite[c.covs[i]] /\ IsFinite[c.sigs1[i]]

----------------------------------------------------------------------------
(* Properties of the LimberCosmology kernel registry *)

BuilderOps == {"addDeltaNz", "addStepNz", "addNz"}

\* kernel['dndz'] as each builder writes it
BuilderKind(op) ==
    CASE op = "addDeltaNz" -> "delta"
      [] op = "addStepNz"  -> "step"
      [] op = "addNz"      -> "interp"

\* C8: for a kernel added with addDeltaNz at source redshift z_s without bias,
\* the window computed by _lensWindow is 1 - chi_i/chi(z_s) at every grid point
\* with z_i <= z_s and 0 at every grid point with z_i > z_s.
C8_DeltaWindow ==
    \A tag \in DOMAIN kernels :
        ({"zdelta", "window_z"} \subseteq DOMAIN kernels[tag]) =>
            \A j \in Grid :
                kernels[tag].window_z[j]
                    = IF Le[zs[j], kernels[tag].zdelta]
                      THEN Sub[One, Div[chis[j], comoving_radial_distance(kernels[tag].zdelta)]]
                      ELSE Zero

\* C8 witness: a delta kernel at z_s = 3/4 is registered; its window is
\* positive at the grid point below z_s and 0 at the grid points above
C8_Witness ==
    \E tag \in DOMAIN kernels :
        /\ {"zdelta", "window_z"} \subseteq DOMAIN kernels[tag]
        /\ kernels[tag].zdelta = R(3, 4)
        /\ \E j \in Grid : Lt[zs[j], R(3, 4)] /\ Lt[Zero, kernels[tag].window_z[j]]
        /\ \E j \in Grid : Lt[R(3, 4), zs[j]] /\ kernels[tag].window_z[j] = Zero

\* One builder call, from the registry before it to the registry after it
C10_BuilderStep ==
    lastCall'.op \in BuilderOps =>
        /\ (lastCall'.key \in DOMAIN kernels /\ ~lastCall'.ignore_exists) =>
               /\ lastCall'.err = "AssertionError"
               /\ kernels' = kernels
               /\ kernelOrder' = kernelOrder
        /\ (lastCall'.key \in DOMAIN kernels /\ lastCall'.ignore_exists
                /\ lastCall'.key # cmb) =>
               /\ DOMAIN kernels' = DOMAIN kernels
               /\ kernelOrder' = kernelOrder
               /\ \A t \in DOMAIN kernels \ {lastCall'.key} : kernels'[t] = kernels[t]
               /\ kernels'[lastCall'.key].dndz.kind = BuilderKind(lastCall'.op)
               /\ lastCall'.err = "none" =>
                      {"W", "type"} \subseteq DOMAIN kernels'[lastCall'.key]
               /\ lastCall'.err # "none" =>
                      DOMAIN kernels'[lastCall'.key] = {"dndz", "zdelta"}

\* C10: a call of addDeltaNz, addStepNz or addNz whose tag is already in the
\* registry and whose ignore_exists is false is rejected and leaves the registry
\* unchanged; with ignore_exists true and a tag other than "cmb" the call puts
\* the record it builds in the place of the kernel under that tag, the other
\* kernels and the order of the tags unchanged.
C10_DuplicateTag == [][C10_BuilderStep]_vars

\* C10 witness: a builder call on a tag other than "cmb" that was in the registry,
\* with ignore_exists false, ended with the assertion error
C10_Witness ==
    /\ lastCall.op \in BuilderOps
    /\ lastCall.existed
    /\ ~lastCall.ignore_exists
    /\ lastCall.key # cmb
    /\ lastCall.err = "AssertionError"
    /\ "W" \in DOMAIN kernels[lastCall.key]

\* One builder call on the tag "cmb"
C11_CmbStep ==
    (lastCall'.op \in BuilderOps /\ lastCall'.key = cmb) =>
        /\ lastCall'.err = "AssertionError"
        /\ kernels' = kernels
        /\ kernelOrder' = kernelOrder

\* C11: every addDeltaNz / addStepNz / addNz call with the tag "cmb" is rejected
\* whatever ignore_exists is, and in every state reached after construction the
\* registry holds a "cmb" kernel whose W is the one _initWkappaCMB generated.
C11_CmbReserved ==
    /\ [](cmb \in DOMAIN kernels /\ kernels[cmb] = initWkappaCMB)
    /\ [][C11_CmbStep]_vars

\* C11 witness: a builder call with the tag "cmb" and ignore_exists true ended
\* with the assertion error, other kernels being registered, and the "cmb"
\* kernel is the generated one
C11_Witness ==
    /\ lastCall.op \in BuilderOps
    /\ lastCall.key = cmb
    /\ lastCall.ignore_exists
    /\ lastCall.err = "AssertionError"
    /\ g \in DOMAIN kernels
    /\ kernels[cmb].W = initWkappaCMB.W

\* a delta-function kernel request: what addDeltaNz hands to the shared body
DeltaRequest(tag, zsource, bias, ignore_exists) ==
    addKernel(tag, [dndz |-> [kind |-> "delta"], zdelta |-> zsource], bias, None, None,
              ignore_exists)

\* C12: in every state, an addDeltaNz call with a bias that is not None ends
\* with an error, whatever its tag, source redshift and ignore_exists.
C12_DeltaWithBiasRejected ==
    \A tag \in Tags, zsource \in ZSources, bias \in BiasValues \ {None},
       ignore_exists \in BOOLEAN :
        DeltaRequest(tag, zsource, bias, ignore_exists).err = "AssertionError"

\* C12 witness: an addDeltaNz call on a new tag other than "cmb" ended with the
\* assertion error, which only the bias can have caused; the record it had
\* assigned holds no window
C12_Witness ==
    /\ lastCall.op = "addDeltaNz"
    /\ ~lastCall.existed
    /\ lastCall.key # cmb
    /\ lastCall.err = "AssertionError"
    /\ lastCall.key \in DOMAIN kernels
    /\ DOMAIN kernels[lastCall.key] = {"dndz", "zdelta"}

----------------------------------------------------------------------------
(* Properties of the kernel registry as a whole *)

\* every registered tag has a window array W aligned to the grid
WindowsAligned ==
    \A tag \in DOMAIN kernels :
        "W" \in DOMAIN kernels[tag] /\ Len(kernels[tag].W) = NumZ - 2

\* a builder call that ends with an error leaves the registry as it was
C18_RejectedStep ==
    (lastCall'.op \in BuilderOps /\ lastCall'.err # "none") =>
        /\ kernels' = kernels
        /\ kernelOrder' = kernelOrder

\* C18 as stated: in every state reached by addDeltaNz / addStepNz / addNz
\* calls, rejected ones included, every tag of the registry has a window array
\* W of length numz-2, so that a generateCls call over the registered tags
\* returns; and a builder call that is rejected with an error leaves the
\* registry exactly as it was.
C18_RegistryWellFormed ==
    /\ [](WindowsAligned /\ (lastCall.op = "generateCls" => lastCall.err = "none"))
    /\ [][C18_RejectedStep]_vars

----------------------------------------------------------------------------
(* Properties of the LensForecast presence flags *)

\* C13 as stated: over every sequence of load calls, snRatio returns normally
\* only in states where the six flags _haveKK, _haveKG, _haveGG, _haveSS,
\* _haveSG, _haveKS are all true.  (snRatio returns normally exactly when the
\* entries it reads are present, which is snReady: its arithmetic never raises.)
C13_FlagsGateSnRatio == snReady => \A f \in Flags : have[f]

----------------------------------------------------------------------------
(* Properties of the files written by loadTheorySpectraFromPycambResults *)

\* the TheorySpectra the last loader call returned
TheoryReturned == [uCl |-> uClTab, lCl |-> lClTab, gCl |-> gClTab]

\* the last loader call, made again with pickling=False
WithoutPickling ==
    FromPycambResults(lastCall.key.results, lastCall.key.kellmax, lastCall.key.date,
                      lastCall.key.unlensedEqualsLensed, lastCall.key.useTotal,
                      FALSE, output)

\* C14 as stated: the files under output/ are a pure memoization.  After
\* every call of loadTheorySpectraFromPycambResults with pickling enabled, in
\* any sequence of calls, the spectra returned are the spectra the same call
\* returns with pickling disabled.
C14_PureMemoization ==
    (lastCall.op = "loadTheorySpectraFromPycambResults" /\ lastCall.key.pickling) =>
        /\ lastCall.err = WithoutPickling.err
        /\ TheoryReturned = WithoutPickling.theory

====
